---- MODULE Spec2Model ----
(***************************************************************************)
(* Model of semantic_text_aligner: the DTW alignment engine                *)
(* (core.py / aligner.py, the two files hold the same align_sequences) and *)
(* the chunk stitching engine (stitcher.py).                               *)
(*                                                                         *)
(* Costs are Python floats in the source.  They are modelled as integers   *)
(* in tenths (One == 10 stands for 1.0), on embedding vectors whose norms  *)
(* are whole numbers, so every cosine distance below is exact.             *)
(***************************************************************************)
EXTENDS Integers, Sequences, FiniteSets, TLC

VARIABLES
    \* ---- align_sequences (core.py) ----
    left,           \* left input list (Optional[str] entries)
    right,          \* right input list
    gap_penalty,    \* gap_penalty argument, in tenths
    embeddings,     \* lookup returned by _embed_texts
    calls,          \* number of calls made to the embedding provider
    dp,             \* DP cost table
    back,           \* backpointer table
    i, j,           \* cursor of the reconstruction loop
    aligned,        \* rows collected so far / returned list
    pc,             \* position inside align_sequences
    \* ---- stitch_all_chunks (stitcher.py) ----
    accumulator,    \* the growing alignment
    overlap_size,   \* overlap_size argument
    chunk_idx,      \* number of chunks folded after the first
    chunk_list,     \* the chunk taken from the iterator last
    acc_before,     \* accumulator as it was before the last step
    core,           \* what _stitch_core returned (and its locals) in the last step
    given,          \* the lists the caller passed, as the caller sees them now
    acc_ref,        \* 0: accumulator is a list of the call's own; k: it is given[k]
    spc             \* position inside stitch_all_chunks

alignVars == <<left, right, gap_penalty, embeddings, calls, dp, back, i, j, aligned, pc>>
stitchVars == <<accumulator, overlap_size, chunk_idx, chunk_list, acc_before, core,
                given, acc_ref, spc>>
vars == <<alignVars, stitchVars>>

(***************************************************************************)
(* Bounds of the model                                                     *)
(***************************************************************************)
MaxLen == 2          \* longest input list given to align_sequences
MaxChunkLen == 3     \* longest chunk given to stitch_all_chunks
MaxChunks == 2       \* most chunks in one stitch_all_chunks call
MaxOverlap == 2      \* largest overlap_size
MaxShortLen == 1     \* longest chunk after the first in a call with one chunk more

Tokens == {"a", "b"}
NONE == "None"                       \* Python's None (a gap)
OptTokens == Tokens \cup {NONE}
GapPenalties == {-1, 0, 2, 6}        \* -0.1, 0.0, 0.2, 0.6
NoVec == <<>>                        \* a record of the response without a vector
Vectors == {<<1, 0>>, <<3, 4>>, <<0, 0>>}

SeqsUpTo(S, n) == UNION {[1..k -> S] : k \in 0..n}

\* aligned.reverse() of line 169 left out
NotReversed(s) == s

RECURSIVE Reverse(_)
Reverse(s) == IF s = <<>> THEN <<>> ELSE Append(Reverse(Tail(s)), Head(s))

(***************************************************************************)
(* Cost model                                                              *)
(***************************************************************************)
One == 10            \* the float 1.0, in tenths

ISqrt(n) == CHOOSE r \in 0..n : r * r <= n /\ n < (r + 1) * (r + 1)

RECURSIVE Dot(_, _)
Dot(u, v) ==
    IF u = <<>> \/ v = <<>> THEN 0
    ELSE Head(u) * Head(v) + Dot(Tail(u), Tail(v))

Clamp(x, lo, hi) == IF x > hi THEN hi ELSE IF x < lo THEN lo ELSE x

\* integer division rounding toward zero is not needed: the model's vectors
\* give whole quotients; \div floors, which agrees on whole quotients
\* _cosine_distance with the subtraction of line 35 turned round
CosineSignFlipped(vec_a, vec_b) ==
    LET dot_product == Dot(vec_a, vec_b)
        norm_a == ISqrt(Dot(vec_a, vec_a))
        norm_b == ISqrt(Dot(vec_b, vec_b))
    IN  IF norm_a = 0 \/ norm_b = 0 THEN One
        ELSE Clamp((One * dot_product) \div (norm_a * norm_b), -One, One) - One

_cosine_distance(vec_a, vec_b) ==
    LET dot_product == Dot(vec_a, vec_b)
        norm_a == ISqrt(Dot(vec_a, vec_a))
        norm_b == ISqrt(Dot(vec_b, vec_b))
    IN  IF norm_a = 0 \/ norm_b = 0 THEN One
        ELSE One - Clamp((One * dot_product) \div (norm_a * norm_b), -One, One)

\* dict.get: the vector of a token, NoVec when the lookup has none
Get(emb, t) == IF t \in DOMAIN emb THEN emb[t] ELSE NoVec

\* _pair_cost falling back to the gap penalty only when both vectors are
\* missing (and for or at line 106)
PairCostBothMissing(left_item, right_item, emb, gap) ==
    IF left_item = NONE /\ right_item = NONE THEN 0
    ELSE IF left_item = NONE \/ right_item = NONE THEN gap
    ELSE IF Get(emb, left_item) = NoVec /\ Get(emb, right_item) = NoVec THEN gap
    ELSE _cosine_distance(Get(emb, left_item), Get(emb, right_item))

_pair_cost(left_item, right_item, emb, gap) ==
    IF left_item = NONE /\ right_item = NONE THEN 0
    ELSE IF left_item = NONE \/ right_item = NONE THEN gap
    ELSE IF Get(emb, left_item) = NoVec \/ Get(emb, right_item) = NoVec THEN gap
    ELSE _cosine_distance(Get(emb, left_item), Get(emb, right_item))

(***************************************************************************)
(* _embed_texts: the unique non-None texts in first-occurrence order       *)
(***************************************************************************)
RECURSIVE Ordered(_, _)
Ordered(texts, seen) ==
    IF texts = <<>> THEN <<>>
    ELSE IF Head(texts) = NONE \/ Head(texts) \in seen THEN Ordered(Tail(texts), seen)
    ELSE <<Head(texts)>> \o Ordered(Tail(texts), seen \cup {Head(texts)})

\* the lookup built from a response holding one vector per ordered text
Lookup(ordered, vectors) ==
    [t \in {ordered[k] : k \in 1..Len(ordered)} |->
        vectors[CHOOSE k \in 1..Len(ordered) : ordered[k] = t]]

(***************************************************************************)
(* The DP table of align_sequences                                         *)
(***************************************************************************)
\* BestMove with the left move also taking ties (<= for <)
BestMoveLeftTies(cost_diag, cost_up, cost_left) ==
    LET b1 == [cost |-> cost_diag, move |-> "D"]
        b2 == IF cost_up < b1.cost THEN [cost |-> cost_up, move |-> "U"] ELSE b1
        b3 == IF cost_left <= b2.cost THEN [cost |-> cost_left, move |-> "L"] ELSE b2
    IN  b3

\* BestMove with the comparisons turned round (> for <)
BestMoveGreater(cost_diag, cost_up, cost_left) ==
    LET b1 == [cost |-> cost_diag, move |-> "D"]
        b2 == IF cost_up > b1.cost THEN [cost |-> cost_up, move |-> "U"] ELSE b1
        b3 == IF cost_left > b2.cost THEN [cost |-> cost_left, move |-> "L"] ELSE b2
    IN  b3

\* BestMove without the comparison against the left move
BestMoveNoLeft(cost_diag, cost_up, cost_left) ==
    LET b1 == [cost |-> cost_diag, move |-> "D"]
        b2 == IF cost_up < b1.cost THEN [cost |-> cost_up, move |-> "U"] ELSE b1
    IN  b2

\* BestMove with the up move also taking ties with the diagonal (<= for <)
BestMoveUpTies(cost_diag, cost_up, cost_left) ==
    LET b1 == [cost |-> cost_diag, move |-> "D"]
        b2 == IF cost_up <= b1.cost THEN [cost |-> cost_up, move |-> "U"] ELSE b1
        b3 == IF cost_left < b2.cost THEN [cost |-> cost_left, move |-> "L"] ELSE b2
    IN  b3

\* lines 140-147: best of the three costs, replaced only by a strictly smaller one
BestMove(cost_diag, cost_up, cost_left) ==
    LET b1 == [cost |-> cost_diag, move |-> "D"]
        b2 == IF cost_up < b1.cost THEN [cost |-> cost_up, move |-> "U"] ELSE b1
        b3 == IF cost_left < b2.cost THEN [cost |-> cost_left, move |-> "L"] ELSE b2
    IN  b3

\* lines 120-150: the table of [cost, move] cells
Table(l, r, emb, gap) ==
    LET m == Len(l)
        n == Len(r)
        cell[p \in (0..m) \X (0..n)] ==
            LET ci == p[1]
                cj == p[2]
            IN  IF ci = 0 /\ cj = 0 THEN [cost |-> 0, move |-> NONE]
                ELSE IF cj = 0 THEN [cost |-> ci * gap, move |-> "U"]
                ELSE IF ci = 0 THEN [cost |-> cj * gap, move |-> "L"]
                ELSE BestMove(
                        cell[<<ci - 1, cj - 1>>].cost + _pair_cost(l[ci], r[cj], emb, gap),
                        cell[<<ci - 1, cj>>].cost + gap,
                        cell[<<ci, cj - 1>>].cost + gap)
    IN  cell

\* lines 156-165: the row one reconstruction step appends
TraceRow(l, r, move, ci, cj) ==
    IF move = "D" THEN <<l[ci], r[cj]>>
    ELSE IF move = "U" THEN <<l[ci], NONE>>
    ELSE <<NONE, r[cj]>>

\* NextJ with j -= 1 (lines 158 and 164) left out
NextJStays(move, cj) == cj

NextI(move, ci) == IF move \in {"D", "U"} THEN ci - 1 ELSE ci
NextJ(move, cj) == IF move \in {"D", "L"} THEN cj - 1 ELSE cj

\* lines 152-169 as a function of the table: the rows in the order appended
RECURSIVE Backtrace(_, _, _, _, _)
Backtrace(l, r, tbl, ci, cj) ==
    IF ci = 0 /\ cj = 0 THEN <<>>
    ELSE LET move == tbl[<<ci, cj>>].move
         IN  <<TraceRow(l, r, move, ci, cj)>>
                \o Backtrace(l, r, tbl, NextI(move, ci), NextJ(move, cj))

\* align_sequences as a function of its inputs and the lookup
AlignRows(l, r, emb, gap) ==
    Reverse(Backtrace(l, r, Table(l, r, emb, gap), Len(l), Len(r)))

(***************************************************************************)
(* align_sequences, step by step                                           *)
(***************************************************************************)
\* value of core before any fold step
NoCore == [stitched_rows |-> <<>>, trim_from_tail |-> 0,
           anchor_found |-> FALSE, anchor_in_head |-> FALSE,
           tail_window |-> <<>>, head_window |-> <<>>,
           anchor_idx_head |-> 0, anchor_idx_tail |-> 0,
           updated_tail_window |-> <<>>, consumed_head |-> <<>>,
           earliest_rewrite_idx |-> 0, leftover_head_rows |-> <<>>,
           rewritten_prefix |-> <<>>, merged_overlap |-> <<>>, overlap_len |-> 0]

StitchIdle ==
    /\ accumulator = <<>>
    /\ overlap_size = 0
    /\ chunk_idx = 0
    /\ chunk_list = <<>>
    /\ acc_before = <<>>
    /\ core = NoCore
    /\ given = <<>>
    /\ acc_ref = 0
    /\ spc = "idle"

InitAlign ==
    /\ left \in SeqsUpTo(OptTokens, MaxLen)
    /\ right \in SeqsUpTo(OptTokens, MaxLen)
    /\ gap_penalty \in GapPenalties
    /\ embeddings = <<>>
    /\ calls = 0
    /\ dp = <<>>
    /\ back = <<>>
    /\ i = 0
    /\ j = 0
    /\ aligned = <<>>
    /\ pc = "embed"
    /\ StitchIdle

\* line 118, lines 38-71: no text to embed, no provider call
EmbedNothing ==
    /\ pc = "embed"
    /\ Ordered(left \o right, {}) = <<>>
    /\ embeddings' = <<>>
    /\ pc' = "table"
    /\ UNCHANGED <<left, right, gap_penalty, calls, dp, back, i, j, aligned, stitchVars>>

\* the provider answers with one record per text
EmbedOk ==
    /\ pc = "embed"
    /\ LET ordered == Ordered(left \o right, {})
       IN  /\ ordered # <<>>
           /\ \E vectors \in [1..Len(ordered) -> Vectors \cup {NoVec}] :
                embeddings' = Lookup(ordered, vectors)
    /\ calls' = calls + 1
    /\ pc' = "table"
    /\ UNCHANGED <<left, right, gap_penalty, dp, back, i, j, aligned, stitchVars>>

\* EmbedFail calling the provider a second time after the first failure
EmbedFailRetried ==
    /\ pc = "embed"
    /\ Ordered(left \o right, {}) # <<>>
    /\ calls' = calls + 1
    /\ pc' = IF calls = 0 THEN "embed" ELSE "error"
    /\ UNCHANGED <<left, right, gap_penalty, embeddings, dp, back, i, j, aligned, stitchVars>>

\* the provider raises, or its response has no data (line 60)
EmbedFail ==
    /\ pc = "embed"
    /\ Ordered(left \o right, {}) # <<>>
    /\ calls' = calls + 1
    /\ pc' = "error"
    /\ UNCHANGED <<left, right, gap_penalty, embeddings, dp, back, i, j, aligned, stitchVars>>

\* lines 120-153
BuildTable ==
    /\ pc = "table"
    /\ LET tbl == Table(left, right, embeddings, gap_penalty)
       IN  /\ dp' = [p \in DOMAIN tbl |-> tbl[p].cost]
           /\ back' = [p \in DOMAIN tbl |-> tbl[p].move]
    /\ i' = Len(left)
    /\ j' = Len(right)
    /\ aligned' = <<>>
    /\ pc' = "trace"
    /\ UNCHANGED <<left, right, gap_penalty, embeddings, calls, stitchVars>>

\* lines 154-165: one iteration of the reconstruction loop; a cell without a
\* recorded move raises (lines 166-167) and the call returns nothing
TraceStep ==
    /\ pc = "trace"
    /\ i > 0 \/ j > 0
    /\ back[<<i, j>>] \in {"D", "U", "L"}
    /\ aligned' = Append(aligned, TraceRow(left, right, back[<<i, j>>], i, j))
    /\ i' = NextI(back[<<i, j>>], i)
    /\ j' = NextJ(back[<<i, j>>], j)
    /\ UNCHANGED <<left, right, gap_penalty, embeddings, calls, dp, back, pc, stitchVars>>

\* lines 169-171
Finish ==
    /\ pc = "trace"
    /\ i = 0 /\ j = 0
    /\ aligned' = Reverse(aligned)
    /\ pc' = "done"
    /\ UNCHANGED <<left, right, gap_penalty, embeddings, calls, dp, back, i, j, stitchVars>>

(***************************************************************************)
(* Stitcher: rows, merge, anchors                                          *)
(***************************************************************************)
Rows == OptTokens \X OptTokens
NoRow == <<>>                        \* _compatible_and_merge returning None

FirstN(s, n) == SubSeq(s, 1, IF n < Len(s) THEN n ELSE Len(s))
LastN(s, n) == SubSeq(s, (IF n < Len(s) THEN Len(s) - n ELSE 0) + 1, Len(s))
\* s[:-n] cutting one row more
DropLastOneMore(s, n) == SubSeq(s, 1, IF n + 1 < Len(s) THEN Len(s) - (n + 1) ELSE 0)

\* s[:-n] for n > 0
DropLast(s, n) == SubSeq(s, 1, IF n < Len(s) THEN Len(s) - n ELSE 0)
\* s[k:] with k counted from 0
From(s, k) == SubSeq(s, k + 1, Len(s))

\* _compatible_and_merge without the shared-token test of lines 22-25
MergeWithoutSharedToken(a, b) ==
    LET left_conflict == a[1] # NONE /\ b[1] # NONE /\ a[1] # b[1]
        right_conflict == a[2] # NONE /\ b[2] # NONE /\ a[2] # b[2]
    IN  IF left_conflict \/ right_conflict THEN NoRow
        ELSE <<IF a[1] # NONE THEN a[1] ELSE b[1], IF a[2] # NONE THEN a[2] ELSE b[2]>>

_compatible_and_merge(a, b) ==
    LET left_conflict == a[1] # NONE /\ b[1] # NONE /\ a[1] # b[1]
        right_conflict == a[2] # NONE /\ b[2] # NONE /\ a[2] # b[2]
        shared_token == (a[1] # NONE /\ a[1] = b[1]) \/ (a[2] # NONE /\ a[2] = b[2])
    IN  IF left_conflict \/ right_conflict THEN NoRow
        ELSE IF ~shared_token THEN NoRow
        ELSE <<IF a[1] # NONE THEN a[1] ELSE b[1], IF a[2] # NONE THEN a[2] ELSE b[2]>>

\* _find_canonical_anchor taking the first row with a non-gap side
AnchorAnySide(rows) ==
    LET hits == {k \in 1..Len(rows) : rows[k][1] # NONE \/ rows[k][2] # NONE}
    IN  IF hits = {} THEN 0 ELSE CHOOSE k \in hits : \A h \in hits : k <= h

\* positions are counted from 1 in the model; 0 stands for "not found" (None)
_find_canonical_anchor(rows) ==
    LET hits == {k \in 1..Len(rows) : rows[k][1] # NONE /\ rows[k][2] # NONE}
    IN  IF hits = {} THEN 0 ELSE CHOOSE k \in hits : \A h \in hits : k <= h

\* _matching_overlap_length keeping the chunk's row instead of the merged row
RECURSIVE OverlapKeepsChunkRow(_, _, _, _)
OverlapKeepsChunkRow(tail_window, new_chunk, tail_idx, head_idx) ==
    IF tail_idx > Len(tail_window) \/ head_idx > Len(new_chunk) THEN <<>>
    ELSE LET merged == _compatible_and_merge(tail_window[tail_idx], new_chunk[head_idx])
         IN  IF merged = NoRow THEN <<>>
             ELSE <<new_chunk[head_idx]>> \o
                  OverlapKeepsChunkRow(tail_window, new_chunk, tail_idx + 1, head_idx + 1)

\* the rows merged from tail_idx / head_idx on, until a pair is incompatible
\* or either list ends
RECURSIVE _matching_overlap_length(_, _, _, _)
_matching_overlap_length(tail_window, new_chunk, tail_idx, head_idx) ==
    IF tail_idx > Len(tail_window) \/ head_idx > Len(new_chunk) THEN <<>>
    ELSE LET merged == _compatible_and_merge(tail_window[tail_idx], new_chunk[head_idx])
         IN  IF merged = NoRow THEN <<>>
             ELSE <<merged>> \o
                  _matching_overlap_length(tail_window, new_chunk, tail_idx + 1, head_idx + 1)

RECURSIVE _trailing_permutable_block_len(_)
_trailing_permutable_block_len(window) ==
    IF window = <<>> THEN 0
    ELSE LET last == window[Len(window)]
         IN  IF (last[1] = NONE) # (last[2] = NONE)
             THEN 1 + _trailing_permutable_block_len(SubSeq(window, 1, Len(window) - 1))
             ELSE 0

\* _find_anchor_in_tail in one pass: the first row equal to the anchor or merging to it
FindAnchorOnePass(tail_window, anchor_row) ==
    LET hits == {k \in 1..Len(tail_window) :
                    \/ tail_window[k] = anchor_row
                    \/ _compatible_and_merge(tail_window[k], anchor_row) = anchor_row}
    IN  IF hits = {} THEN 0 ELSE CHOOSE k \in hits : \A h \in hits : k <= h

\* lines 104-111: first row equal to the anchor, else first row that merges to it
_find_anchor_in_tail(tail_window, anchor_row) ==
    LET eq == {k \in 1..Len(tail_window) : tail_window[k] = anchor_row}
        mg == {k \in 1..Len(tail_window) :
                  _compatible_and_merge(tail_window[k], anchor_row) = anchor_row}
        Min(S) == CHOOSE k \in S : \A h \in S : k <= h
    IN  IF eq # {} THEN Min(eq) ELSE IF mg # {} THEN Min(mg) ELSE 0

\* the scan of lines 125-128 finding nothing
ScanTailNothing(window, head_row, t_idx) == 0

\* lines 125-128: nearest position t_idx..1 whose row is compatible, 0 if none
RECURSIVE ScanTail(_, _, _)
ScanTail(window, head_row, t_idx) ==
    IF t_idx = 0 THEN 0
    ELSE IF _compatible_and_merge(window[t_idx], head_row) # NoRow THEN t_idx
    ELSE ScanTail(window, head_row, t_idx - 1)

\* MergeHeadPrefix without the test of line 130: every merge counts as a rewrite
RECURSIVE MergeAlwaysRewrites(_, _, _, _)
MergeAlwaysRewrites(st, head_prefix, anchor_idx_tail, h_idx) ==
    IF h_idx > Len(head_prefix) THEN st
    ELSE LET t == ScanTail(st.updated_tail_window, head_prefix[h_idx], anchor_idx_tail)
             merged == _compatible_and_merge(st.updated_tail_window[t], head_prefix[h_idx])
             st2 == IF t = 0 THEN st
                    ELSE [st EXCEPT !.consumed_head[h_idx] = TRUE,
                                    !.updated_tail_window[t] = merged,
                                    !.earliest_rewrite_idx =
                                        IF @ = 0 \/ t < @ THEN t ELSE @]
         IN  MergeAlwaysRewrites(st2, head_prefix, anchor_idx_tail, h_idx + 1)

\* lines 120-137: the loop over head_prefix, from row h_idx on
RECURSIVE MergeHeadPrefix(_, _, _, _)
MergeHeadPrefix(st, head_prefix, anchor_idx_tail, h_idx) ==
    IF h_idx > Len(head_prefix) THEN st
    ELSE LET t == ScanTail(st.updated_tail_window, head_prefix[h_idx], anchor_idx_tail)
             merged == _compatible_and_merge(st.updated_tail_window[t], head_prefix[h_idx])
             st2 == IF t = 0 THEN st
                    ELSE IF merged = st.updated_tail_window[t]
                    THEN [st EXCEPT !.consumed_head[h_idx] = TRUE]
                    ELSE [st EXCEPT !.consumed_head[h_idx] = TRUE,
                                    !.updated_tail_window[t] = merged,
                                    !.earliest_rewrite_idx =
                                        IF @ = 0 \/ t < @ THEN t ELSE @]
         IN  MergeHeadPrefix(st2, head_prefix, anchor_idx_tail, h_idx + 1)

SelectSeqIdx(s, keep) ==
    LET F[k \in 0..Len(s)] ==
            IF k = 0 THEN <<>>
            ELSE IF keep[k] THEN Append(F[k - 1], s[k]) ELSE F[k - 1]
    IN  F[Len(s)]

\* W_max with one more row on each side of the boundary
WMaxWider(overlap) == 2 * (overlap + 1)

\* lines 94 and 194
WMax(overlap) == 2 * overlap

\* lines 80-159.  anchor_idx_head / anchor_idx_tail / earliest_rewrite_idx are
\* positions counted from 1, 0 when None
_stitch_core(prev_tail, new_chunk, overlap) ==
    LET W_max == WMax(overlap)
        tail_window == IF W_max > 0 THEN LastN(prev_tail, W_max) ELSE <<>>
        head_window == IF W_max > 0 THEN FirstN(new_chunk, W_max) ELSE <<>>
        anchor_idx_head == _find_canonical_anchor(head_window)
        anchor_row == head_window[anchor_idx_head]
        anchor_idx_tail == _find_anchor_in_tail(tail_window, anchor_row)
        head_prefix == FirstN(head_window, anchor_idx_head - 1)
        st0 == [updated_tail_window |-> tail_window,
                consumed_head |-> [k \in 1..Len(head_prefix) |-> FALSE],
                earliest_rewrite_idx |-> 0]
        st == MergeHeadPrefix(st0, head_prefix, anchor_idx_tail, 1)
        leftover_head_rows == SelectSeqIdx(head_prefix,
                                 [k \in 1..Len(head_prefix) |-> ~st.consumed_head[k]])
        rewrite_idx == IF st.earliest_rewrite_idx # 0 THEN st.earliest_rewrite_idx
                       ELSE anchor_idx_tail
        start_in_prev == Len(prev_tail) - Len(tail_window) + (rewrite_idx - 1)
        merged_overlap == _matching_overlap_length(st.updated_tail_window, new_chunk,
                                                   anchor_idx_tail, anchor_idx_head)
        overlap_len == Len(merged_overlap)
        rewritten_prefix == SubSeq(st.updated_tail_window, rewrite_idx, anchor_idx_tail - 1)
        none == [stitched_rows |-> new_chunk, trim_from_tail |-> 0,
                 anchor_found |-> FALSE, anchor_in_head |-> FALSE,
                 tail_window |-> tail_window, head_window |-> head_window,
                 anchor_idx_head |-> 0, anchor_idx_tail |-> 0,
                 updated_tail_window |-> tail_window, consumed_head |-> <<>>,
                 earliest_rewrite_idx |-> 0, leftover_head_rows |-> <<>>,
                 rewritten_prefix |-> <<>>, merged_overlap |-> <<>>, overlap_len |-> 0]
    IN  IF anchor_idx_head = 0 THEN none
        ELSE IF anchor_idx_tail = 0
        THEN [none EXCEPT !.anchor_in_head = TRUE, !.anchor_idx_head = anchor_idx_head]
        ELSE [stitched_rows |-> leftover_head_rows \o rewritten_prefix \o merged_overlap
                                \o From(new_chunk, anchor_idx_head - 1 + overlap_len),
              trim_from_tail |-> Len(prev_tail) - start_in_prev,
              anchor_found |-> TRUE, anchor_in_head |-> TRUE,
              tail_window |-> tail_window, head_window |-> head_window,
              anchor_idx_head |-> anchor_idx_head, anchor_idx_tail |-> anchor_idx_tail,
              updated_tail_window |-> st.updated_tail_window,
              consumed_head |-> st.consumed_head,
              earliest_rewrite_idx |-> st.earliest_rewrite_idx,
              leftover_head_rows |-> leftover_head_rows,
              rewritten_prefix |-> rewritten_prefix,
              merged_overlap |-> merged_overlap, overlap_len |-> overlap_len]

\* lines 162-174: the rows to append, the rest of the result dropped
stitch_two_chunks(prev_tail, new_chunk, overlap) ==
    _stitch_core(prev_tail, new_chunk, overlap).stitched_rows

\* min of line 223 taking the larger of the two
Max2(x, y) == IF x < y THEN y ELSE x

Min2(x, y) == IF x < y THEN x ELSE y

\* Trimmed without the branch of line 219: an anchor found trims nothing
TrimmedOnlyFallback(acc, res, tail_window, overlap) ==
    IF ~res.anchor_found /\ res.anchor_in_head
    THEN LET trim_len == Min2(_trailing_permutable_block_len(tail_window), overlap)
         IN  IF trim_len # 0 THEN DropLast(acc, trim_len) ELSE acc
    ELSE acc

\* lines 219-225: the accumulator after the trim of one fold step
Trimmed(acc, res, tail_window, overlap) ==
    IF res.anchor_found /\ res.trim_from_tail # 0
    THEN DropLast(acc, res.trim_from_tail)
    ELSE IF ~res.anchor_found /\ res.anchor_in_head
    THEN LET trim_len == Min2(_trailing_permutable_block_len(tail_window), overlap)
         IN  IF trim_len # 0 THEN DropLast(acc, trim_len) ELSE acc
    ELSE acc

(***************************************************************************)
(* stitch_all_chunks, one action per chunk taken from the iterator         *)
(***************************************************************************)
Chunks == SeqsUpTo(Rows, MaxChunkLen)

AlignIdle ==
    /\ left = <<>>
    /\ right = <<>>
    /\ gap_penalty = 0
    /\ embeddings = <<>>
    /\ calls = 0
    /\ dp = <<>>
    /\ back = <<>>
    /\ i = 0
    /\ j = 0
    /\ aligned = <<>>
    /\ pc = "idle"

Init ==
    /\ accumulator = <<>>
    /\ overlap_size \in 0..MaxOverlap
    /\ chunk_idx = 0
    /\ chunk_list = <<>>
    /\ acc_before = <<>>
    /\ core = NoCore
    /\ given = <<>>
    /\ acc_ref = 0
    /\ spc = "start"
    /\ AlignIdle

\* lines 187-191: the iterable is empty
ReturnEmpty ==
    /\ spc = "start"
    /\ spc' = "done"
    /\ UNCHANGED <<accumulator, overlap_size, chunk_idx, chunk_list, acc_before, core,
                   given, acc_ref, alignVars>>

\* FirstChunk without the list() of line 189: the accumulator is the caller's list
FirstChunkAliased ==
    /\ spc = "start"
    /\ \E first_chunk \in Chunks :
        /\ accumulator' = first_chunk
        /\ chunk_list' = first_chunk
        /\ given' = <<first_chunk>>
    /\ acc_ref' = 1
    /\ spc' = "loop"
    /\ UNCHANGED <<overlap_size, chunk_idx, acc_before, core, alignVars>>

\* lines 187-195: the first chunk seeds the accumulator, a new list made by
\* list() at line 189
FirstChunk ==
    /\ spc = "start"
    /\ \E first_chunk \in Chunks :
        /\ accumulator' = first_chunk
        /\ chunk_list' = first_chunk
        /\ given' = <<first_chunk>>
    /\ acc_ref' = 0
    /\ spc' = "loop"
    /\ UNCHANGED <<overlap_size, chunk_idx, acc_before, core, alignVars>>

\* lines 219-225: a trim rebinds accumulator to a slice, which is a new list;
\* rows were trimmed when the list after the step is shorter than the list
\* before it and the rows appended
Sliced(before, after, appended) == Len(after) # Len(before) + Len(appended)

\* lines 197-227: one iteration of the loop over the remaining chunks, the
\* chunk drawn from chunks, while fewer than limit chunks were folded.  The
\* extend of line 227 writes into the list accumulator is bound to.
FoldOf(chunks, limit) ==
    /\ spc = "loop"
    /\ chunk_idx < limit
    /\ \E chunk \in chunks :
        LET W_max == WMax(overlap_size)
            tail_window == IF W_max > 0 THEN LastN(accumulator, W_max) ELSE <<>>
        IN  /\ chunk_list' = chunk
            /\ core' = _stitch_core(tail_window, chunk, overlap_size)
            /\ accumulator' =
                 Trimmed(accumulator, core', tail_window, overlap_size)
                     \o core'.stitched_rows
            /\ acc_ref' = IF Sliced(accumulator, accumulator', core'.stitched_rows)
                          THEN 0 ELSE acc_ref
            /\ given' = Append(IF acc_ref' = 0 THEN given
                                ELSE [given EXCEPT ![acc_ref'] = accumulator'], chunk)
    /\ chunk_idx' = chunk_idx + 1
    /\ acc_before' = accumulator
    /\ UNCHANGED <<overlap_size, spc, alignVars>>

Fold == FoldOf(Chunks, MaxChunks - 1)

\* Return handing back the tail window instead of the accumulator
ReturnTailWindow ==
    /\ spc = "loop"
    /\ spc' = "done"
    /\ accumulator' = LastN(accumulator, WMax(overlap_size))
    /\ chunk_list' = <<>>
    /\ acc_before' = <<>>
    /\ core' = NoCore
    /\ given' = <<>>
    /\ acc_ref' = 0
    /\ UNCHANGED <<overlap_size, chunk_idx, alignVars>>

\* line 229: the iterator is exhausted; only the returned list is followed
\* after the call
Return ==
    /\ spc = "loop"
    /\ spc' = "done"
    /\ chunk_list' = <<>>
    /\ acc_before' = <<>>
    /\ core' = NoCore
    /\ given' = <<>>
    /\ acc_ref' = 0
    /\ UNCHANGED <<accumulator, overlap_size, chunk_idx, alignVars>>

\* lines 162-174: stitch_two_chunks called on a tail and a chunk; core holds
\* the result of _stitch_core, core.stitched_rows the list returned.  The
\* windows are slices (lines 95-96), the only list written in place is
\* updated_tail_window, made by list() at line 120, and the result is
\* list(new_chunk) or a new concatenation.
StitchTwo ==
    /\ spc = "start"
    /\ \E prev_tail \in Chunks, new_chunk \in Chunks :
        /\ acc_before' = prev_tail
        /\ chunk_list' = new_chunk
        /\ core' = _stitch_core(prev_tail, new_chunk, overlap_size)
        /\ given' = <<prev_tail, new_chunk>>
    /\ spc' = "two_done"
    /\ UNCHANGED <<accumulator, overlap_size, chunk_idx, acc_ref, alignVars>>

Next ==
    \/ ReturnEmpty
    \/ FirstChunk
    \/ Fold
    \/ Return

Spec == Init /\ [][Next]_vars

\* the two entry points of the stitcher called with a negative overlap_size
NegativeOverlaps == {-1}

InitNegative ==
    /\ accumulator = <<>>
    /\ overlap_size \in NegativeOverlaps
    /\ chunk_idx = 0
    /\ chunk_list = <<>>
    /\ acc_before = <<>>
    /\ core = NoCore
    /\ given = <<>>
    /\ acc_ref = 0
    /\ spc = "start"
    /\ AlignIdle

NextEntry ==
    \/ ReturnEmpty
    \/ FirstChunk
    \/ Fold
    \/ Return
    \/ StitchTwo

SpecNegative == InitNegative /\ [][NextEntry]_vars

\* stitch_all_chunks on one chunk more than MaxChunks, the chunks after the
\* first short, and stitch_two_chunks
ShortChunks == SeqsUpTo(Rows, MaxShortLen)

FoldShort == FoldOf(ShortChunks, MaxChunks)

NextThree ==
    \/ ReturnEmpty
    \/ FirstChunk
    \/ FoldShort
    \/ Return
    \/ StitchTwo

SpecThree == Init /\ [][NextThree]_vars

NextAlign ==
    \/ EmbedNothing
    \/ EmbedOk
    \/ EmbedFail
    \/ BuildTable
    \/ TraceStep
    \/ Finish

SpecAlign == InitAlign /\ [][NextAlign]_vars

(***************************************************************************)
(* Claims about align_sequences (checked under SpecAlign)                  *)
(***************************************************************************)
GapFree(s) == \A k \in 1..Len(s) : s[k] # NONE
SwapRows(rows) == [k \in 1..Len(rows) |-> <<rows[k][2], rows[k][1]>>]

\* C1: for all inputs, lists with None entries included, and any gap penalty,
\* no returned row has both sides gap.
C1_NoDoubleGapRow ==
    pc = "done" => \A k \in 1..Len(aligned) : aligned[k] # <<NONE, NONE>>

\* C3 as stated: for gap-free inputs the result of the swapped call is the
\* result with the two sides of every row swapped, ties included.
C3_MirrorAlways ==
    (pc = "done" /\ GapFree(left) /\ GapFree(right))
        => AlignRows(right, left, embeddings, gap_penalty) = SwapRows(aligned)

\* the cells the reconstruction loop visits from (ci, cj) on
RECURSIVE PathCells(_, _, _)
PathCells(bk, ci, cj) ==
    IF ci = 0 /\ cj = 0 THEN {}
    ELSE {<<ci, cj>>} \cup PathCells(bk, NextI(bk[<<ci, cj>>], ci), NextJ(bk[<<ci, cj>>], cj))

\* at cell p the up and left costs are equal and strictly below the diagonal cost
UpLeftTie(p) ==
    /\ p[1] >= 1 /\ p[2] >= 1
    /\ dp[<<p[1] - 1, p[2]>>] = dp[<<p[1], p[2] - 1>>]
    /\ dp[<<p[1] - 1, p[2]>>] + gap_penalty
         < dp[<<p[1] - 1, p[2] - 1>>]
             + _pair_cost(left[p[1]], right[p[2]], embeddings, gap_penalty)

NoTieOnPath == \A p \in PathCells(back, Len(left), Len(right)) : ~UpLeftTie(p)

\* C3 (amended): for gap-free inputs, when no cell visited by the
\* reconstruction has its up and left costs tied strictly below the diagonal
\* cost, the swapped call returns the result with the sides of every row swapped.
C3_MirrorWithoutTie ==
    (pc = "done" /\ GapFree(left) /\ GapFree(right) /\ NoTieOnPath)
        => AlignRows(right, left, embeddings, gap_penalty) = SwapRows(aligned)

C3_Witness ==
    /\ pc = "done" /\ GapFree(left) /\ GapFree(right) /\ NoTieOnPath
    /\ Len(left) >= 2 /\ Len(right) >= 1
    /\ \E k \in 1..Len(aligned) : aligned[k][2] = NONE
    /\ \E k \in 1..Len(aligned) : aligned[k][1] # NONE /\ aligned[k][2] # NONE

\* C4: two identical sequences whose tokens cost 0 against themselves, gap
\* penalty > 0: the result is the diagonal pairing, row k being (s[k], s[k]).
C4_IdenticalDiagonal ==
    (/\ pc = "done" /\ left = right /\ GapFree(left) /\ gap_penalty > 0
     /\ \A k \in 1..Len(left) : _pair_cost(left[k], left[k], embeddings, gap_penalty) = 0)
        => aligned = [k \in 1..Len(left) |-> <<left[k], left[k]>>]

C4_Witness ==
    /\ pc = "done" /\ left = right /\ GapFree(left) /\ gap_penalty > 0
    /\ \A k \in 1..Len(left) : _pair_cost(left[k], left[k], embeddings, gap_penalty) = 0
    /\ Len(left) >= 2 /\ left[1] # left[2]
    /\ Len(aligned) = Len(left)

\* every monotone alignment of the first ci left and cj right tokens, as the
\* list of its moves (D pairs, U left-only, L right-only)
RECURSIVE MonotonePaths(_, _)
MonotonePaths(ci, cj) ==
    IF ci = 0 /\ cj = 0 THEN {<<>>}
    ELSE (IF ci > 0 /\ cj > 0
          THEN {Append(q, "D") : q \in MonotonePaths(ci - 1, cj - 1)} ELSE {})
         \cup (IF ci > 0 THEN {Append(q, "U") : q \in MonotonePaths(ci - 1, cj)} ELSE {})
         \cup (IF cj > 0 THEN {Append(q, "L") : q \in MonotonePaths(ci, cj - 1)} ELSE {})

\* summed cost of a list of moves ending at (ci, cj)
RECURSIVE PathCost(_, _, _)
PathCost(q, ci, cj) ==
    IF q = <<>> THEN 0
    ELSE LET mv == q[Len(q)]
             rest == SubSeq(q, 1, Len(q) - 1)
         IN  (IF mv = "D"
              THEN _pair_cost(left[ci], right[cj], embeddings, gap_penalty)
              ELSE gap_penalty)
             + PathCost(rest, NextI(mv, ci), NextJ(mv, cj))

\* pair cost for a both-present row, gap penalty for a one-sided row
RECURSIVE RowsCost(_)
RowsCost(rows) ==
    IF rows = <<>> THEN 0
    ELSE (IF Head(rows)[1] # NONE /\ Head(rows)[2] # NONE
          THEN _pair_cost(Head(rows)[1], Head(rows)[2], embeddings, gap_penalty)
          ELSE gap_penalty)
         + RowsCost(Tail(rows))

\* C5: with a non-negative gap penalty the summed cost of the returned rows is
\* dp[m][n] and no monotone alignment of the two sequences costs less.
C5_Optimal ==
    (pc = "done" /\ gap_penalty >= 0 /\ GapFree(left) /\ GapFree(right))
        => /\ RowsCost(aligned) = dp[<<Len(left), Len(right)>>]
           /\ \A q \in MonotonePaths(Len(left), Len(right)) :
                dp[<<Len(left), Len(right)>>] <= PathCost(q, Len(left), Len(right))

C5_Witness ==
    /\ pc = "done" /\ gap_penalty > 0 /\ GapFree(left) /\ GapFree(right)
    /\ Len(left) >= 2 /\ Len(right) >= 2
    /\ \E k \in 1..Len(aligned) : aligned[k][1] = NONE
    /\ \E k \in 1..Len(aligned) : aligned[k][1] # NONE /\ aligned[k][2] # NONE
    /\ \E q \in MonotonePaths(Len(left), Len(right)) :
         dp[<<Len(left), Len(right)>>] < PathCost(q, Len(left), Len(right))

(***************************************************************************)
(* Claims about stitch_all_chunks (checked under Spec)                     *)
(***************************************************************************)
LeftTokensOf(rows) == {rows[k][1] : k \in 1..Len(rows)} \ {NONE}
RightTokensOf(rows) == {rows[k][2] : k \in 1..Len(rows)} \ {NONE}
Folded == spc = "loop" /\ chunk_idx >= 1
BothPresent(row) == row[1] # NONE /\ row[2] # NONE
Compatible(a, b) == _compatible_and_merge(a, b) # NoRow
UnionFill(a, b) ==
    <<IF a[1] # NONE THEN a[1] ELSE b[1], IF a[2] # NONE THEN a[2] ELSE b[2]>>

\* C2: every non-gap left (right) token of the accumulator and of the chunk
\* folded into it is a left (right) value of some row after the fold step.
C2_NoTokenLost ==
    Folded =>
        /\ LeftTokensOf(acc_before) \cup LeftTokensOf(chunk_list)
              \subseteq LeftTokensOf(accumulator)
        /\ RightTokensOf(acc_before) \cup RightTokensOf(chunk_list)
              \subseteq RightTokensOf(accumulator)

\* C6: stitch_all_chunks on a single chunk returns that chunk, whatever the
\* overlap size.
C6_SingleChunk ==
    [][(spc = "loop" /\ chunk_idx = 0 /\ spc' = "done") => accumulator' = chunk_list]_vars

C6_Witness ==
    /\ spc = "done" /\ chunk_idx = 0
    /\ overlap_size >= 1
    /\ Len(accumulator) >= 2 * overlap_size + 1

\* C7: with overlap size 0 a fold step appends the chunk unchanged and trims
\* nothing, so the accumulator is the concatenation of the chunks.
C7_Concatenation ==
    (Folded /\ overlap_size = 0)
        => /\ accumulator = acc_before \o chunk_list
           /\ core.trim_from_tail = 0
           /\ core.stitched_rows = chunk_list

C7_Witness ==
    /\ Folded /\ overlap_size = 0
    /\ Len(acc_before) >= 2 /\ Len(chunk_list) >= 2
    /\ BothPresent(chunk_list[1])
    /\ acc_before[Len(acc_before)] = chunk_list[1]
    /\ acc_before[Len(acc_before) - 1] = chunk_list[2]

\* the accumulator ends with the n rows the chunk starts with, as C8 asks:
\* first row both present, no double gap, first row not earlier in the window
ExactOverlap(n) ==
    LET O == LastN(acc_before, n)
        window == LastN(acc_before, 2 * overlap_size)
        earlier == FirstN(window, Len(window) - n)
    IN  /\ 1 <= n /\ n <= 2 * overlap_size
        /\ n <= Len(acc_before) /\ n <= Len(chunk_list)
        /\ FirstN(chunk_list, n) = O
        /\ BothPresent(O[1])
        /\ \A k \in 1..n : O[k] # <<NONE, NONE>>
        /\ \A k \in 1..Len(earlier) : earlier[k] # O[1]

\* C8: when the accumulator is P ++ O and the chunk O ++ R under the conditions
\* of ExactOverlap, the fold step yields P ++ O ++ R.
C8_ExactOverlapOnce ==
    Folded =>
        \A n \in 1..Len(chunk_list) :
            ExactOverlap(n) => accumulator = acc_before \o From(chunk_list, n)

C8_Witness ==
    /\ Folded
    /\ ExactOverlap(2)
    /\ Len(acc_before) >= 3 /\ Len(chunk_list) >= 3
    /\ acc_before[Len(acc_before)][2] = NONE

\* C9: from the two anchor positions on, rows at equal offsets are merged while
\* both exist and are compatible; each pair gives one appended row, the
\* union-fill of the tail row and the chunk row; the chunk rows after the run
\* are appended unchanged.
C9_OverlapRun ==
    (Folded /\ core.anchor_found) =>
        LET tw == core.tail_window
            ta == core.anchor_idx_tail
            ha == core.anchor_idx_head
            pre == Len(core.leftover_head_rows) + Len(core.rewritten_prefix)
            n == core.overlap_len
            out == core.stitched_rows
        IN  /\ \A off \in 0..(n - 1) :
                /\ ta + off <= Len(tw) /\ ha + off <= Len(chunk_list)
                /\ Compatible(tw[ta + off], chunk_list[ha + off])
                /\ out[pre + off + 1] = UnionFill(tw[ta + off], chunk_list[ha + off])
            /\ \/ ta + n > Len(tw)
               \/ ha + n > Len(chunk_list)
               \/ ~Compatible(tw[ta + n], chunk_list[ha + n])
            /\ Len(out) = pre + n + (Len(chunk_list) - (ha - 1 + n))
            /\ SubSeq(out, pre + n + 1, Len(out)) = From(chunk_list, ha - 1 + n)
            /\ core.trim_from_tail >= n
            /\ accumulator = DropLast(acc_before, core.trim_from_tail) \o out

C9_Witness ==
    /\ Folded /\ core.anchor_found
    /\ core.overlap_len = 2
    /\ LET tw == core.tail_window
           ta == core.anchor_idx_tail
           ha == core.anchor_idx_head
       IN  /\ tw[ta + 1][2] = NONE
           /\ chunk_list[ha + 1][2] # NONE
           /\ ta + 2 <= Len(tw) /\ ha + 2 <= Len(chunk_list)
           /\ ~Compatible(tw[ta + 2], chunk_list[ha + 2])

\* the rows of s at the positions in K, in order
Pick(s, K) == SelectSeqIdx(s, [k \in 1..Len(s) |-> k \in K])

\* head-prefix rows compatible with some tail-window row before the tail anchor
Absorbable ==
    {h \in 1..(core.anchor_idx_head - 1) :
        \E t \in 1..(core.anchor_idx_tail - 1) :
            Compatible(core.tail_window[t], chunk_list[h])}

\* C10: when the anchor is found in both windows, no head-prefix row that is
\* compatible with a tail-window row before the tail anchor is appended, and
\* the accumulator rows before the tail anchor stay as they were, in order.
C10_GapRowsAbsorbed ==
    (Folded /\ core.anchor_found) =>
        LET ta == core.anchor_idx_tail
            ha == core.anchor_idx_head
            kept == Len(acc_before) - Len(core.tail_window) + (ta - 1)
            tailLen == core.overlap_len + (Len(chunk_list) - (ha - 1 + core.overlap_len))
        IN  /\ \E K \in SUBSET ((1..(ha - 1)) \ Absorbable) :
                /\ Len(core.stitched_rows) = Cardinality(K) + tailLen
                /\ FirstN(core.stitched_rows, Cardinality(K)) = Pick(FirstN(chunk_list, ha - 1), K)
            /\ FirstN(accumulator, kept) = FirstN(acc_before, kept)
            /\ accumulator = FirstN(acc_before, kept) \o core.stitched_rows

C10_Witness ==
    /\ Folded /\ core.anchor_found
    /\ core.anchor_idx_head = 3 /\ core.anchor_idx_tail = 3
    /\ Absorbable = {1, 2}
    /\ core.tail_window[1] = chunk_list[2]
    /\ core.tail_window[2] = chunk_list[1]
    /\ core.tail_window[1] # core.tail_window[2]
    /\ Len(accumulator) = Len(acc_before)

\* C11: when the anchor is found in both windows, the head-prefix rows
\* compatible with no tail-window row before the tail anchor are the leftover
\* rows, and they are the first rows appended, unchanged and in head order.
C11_LeftoverVerbatim ==
    (Folded /\ core.anchor_found) =>
        LET ha == core.anchor_idx_head
            leftover == Pick(FirstN(chunk_list, ha - 1), (1..(ha - 1)) \ Absorbable)
        IN  /\ core.leftover_head_rows = leftover
            /\ FirstN(core.stitched_rows, Len(leftover)) = leftover
            /\ Len(core.stitched_rows) >= Len(leftover) + 1

\* no row of the chunk's head window has both sides non-gap
NoHeadAnchor ==
    \A k \in 1..Len(chunk_list) : k <= 2 * overlap_size => ~BothPresent(chunk_list[k])

\* C12: when none of the first 2 * overlap_size rows of the chunk has both
\* sides non-gap, stitch_two_chunks returns the chunk unchanged, and the fold
\* step appends the chunk unchanged and removes no accumulator row.
C12_NoAnchorFallback ==
    (Folded /\ NoHeadAnchor) =>
        /\ stitch_two_chunks(acc_before, chunk_list, overlap_size) = chunk_list
        /\ stitch_two_chunks(core.tail_window, chunk_list, overlap_size) = chunk_list
        /\ core.stitched_rows = chunk_list
        /\ accumulator = acc_before \o chunk_list

C12_Witness ==
    /\ Folded /\ NoHeadAnchor
    /\ overlap_size = 1
    /\ Len(chunk_list) = 3 /\ BothPresent(chunk_list[3])
    /\ Len(acc_before) = 3
    /\ acc_before[2] = chunk_list[3]
    /\ acc_before[3] = chunk_list[1]
    /\ chunk_list[1] # <<NONE, NONE>>

OneSided(row) == (row[1] = NONE) # (row[2] = NONE)

\* the length of the longest run of one-sided rows at the end of window
TrailingOneSided(window) ==
    CHOOSE n \in 0..Len(window) :
        /\ \A k \in (Len(window) - n + 1)..Len(window) : OneSided(window[k])
        /\ n = Len(window) \/ ~OneSided(window[Len(window) - n])

\* the head window has a both-present row, and no row of the tail window is
\* equal to the first such row or merges with it to exactly that row
AnchorOnlyInHead ==
    LET tw == LastN(acc_before, 2 * overlap_size)
    IN  \E h \in 1..Len(chunk_list) :
            /\ h <= 2 * overlap_size
            /\ BothPresent(chunk_list[h])
            /\ \A g \in 1..(h - 1) : ~BothPresent(chunk_list[g])
            /\ \A t \in 1..Len(tw) :
                   /\ tw[t] # chunk_list[h]
                   /\ ~(Compatible(tw[t], chunk_list[h])
                          /\ UnionFill(tw[t], chunk_list[h]) = chunk_list[h])

\* C13: when the anchor is only in the head window, the fold step removes
\* min(r, overlap_size) rows from the end of the accumulator, r the length of
\* the trailing run of one-sided rows of the tail window, and appends the whole
\* chunk unchanged.
C13_AnchorOnlyInHead ==
    (Folded /\ AnchorOnlyInHead) =>
        LET r == TrailingOneSided(LastN(acc_before, 2 * overlap_size))
            removed == IF r < overlap_size THEN r ELSE overlap_size
        IN  /\ accumulator = FirstN(acc_before, Len(acc_before) - removed) \o chunk_list
            /\ Len(accumulator) = Len(acc_before) - removed + Len(chunk_list)
            /\ ~core.anchor_found /\ core.anchor_in_head

C13_Witness ==
    /\ Folded /\ AnchorOnlyInHead
    /\ overlap_size = 1
    /\ Len(acc_before) = 3
    /\ TrailingOneSided(LastN(acc_before, 2)) = 2
    /\ BothPresent(acc_before[1])
    /\ Len(chunk_list) = 2
    /\ Len(accumulator) = 4

\* the rows a fold step can pass to _compatible_and_merge: a tail-window row
\* first, a chunk row second
TailRows == {core.tail_window[k] : k \in 1..Len(core.tail_window)}
ChunkRows == {chunk_list[k] : k \in 1..Len(chunk_list)}

\* C14: _compatible_and_merge(a, b) is None exactly when the lefts are both
\* non-gap and differ, or the rights are both non-gap and differ, or no side
\* holds the same non-gap value in both rows; otherwise the result takes each
\* side from a when a has it and from b when not.
C14_MergeContract ==
    Folded =>
        \A a \in TailRows, b \in ChunkRows :
            LET lefts_differ == a[1] # NONE /\ b[1] # NONE /\ a[1] # b[1]
                rights_differ == a[2] # NONE /\ b[2] # NONE /\ a[2] # b[2]
                shared == \E side \in {1, 2} : a[side] # NONE /\ a[side] = b[side]
                merged == _compatible_and_merge(a, b)
            IN  /\ (merged = NoRow) <=> (lefts_differ \/ rights_differ \/ ~shared)
                /\ merged # NoRow =>
                     \A side \in {1, 2} :
                         merged[side] = IF a[side] # NONE THEN a[side] ELSE b[side]

\* a fold step whose rows hold a pair merged to a row that fills a gap of the
\* first, a pair with a conflict, and a pair sharing nothing
C14_Witness ==
    /\ Folded
    /\ \E a \in TailRows, b \in ChunkRows :
           /\ _compatible_and_merge(a, b) # NoRow
           /\ a[2] = NONE
           /\ _compatible_and_merge(a, b)[2] # NONE
    /\ \E a \in TailRows, b \in ChunkRows :
           a[1] # NONE /\ b[1] # NONE /\ a[1] # b[1] /\ a[2] # NONE /\ a[2] = b[2]
    /\ \E a \in TailRows, b \in ChunkRows :
           a[1] # NONE /\ a[2] = NONE /\ b[1] = NONE /\ b[2] # NONE

(***************************************************************************)
(* Further claims about align_sequences (checked under SpecAlign)          *)
(***************************************************************************)
\* the provider was called and no lookup was built from its answer
ProviderFailed == calls >= 1 /\ embeddings = <<>>

\* C15: the provider is called at most once per call of align_sequences, and
\* when that call fails align_sequences has ended in an error: no table, no
\* row, and no further step.
C15_ProviderFailureFatal ==
    /\ calls <= 1
    /\ ProviderFailed =>
         /\ pc = "error"
         /\ aligned = <<>> /\ dp = <<>> /\ back = <<>>
         /\ ~ENABLED NextAlign

C15_Witness ==
    /\ ProviderFailed
    /\ pc = "error"
    /\ Len(left) = 2 /\ Len(right) = 1
    /\ left[1] # NONE /\ right[1] # NONE

(***************************************************************************)
(* Claims about the overlap argument (checked under SpecNegative)          *)
(***************************************************************************)
\* C16: a call of stitch_all_chunks or stitch_two_chunks with a negative
\* overlap size returns no result.
C16_NegativeOverlapFatal ==
    overlap_size < 0 => spc \notin {"done", "two_done"}

TableBuilt == pc \in {"trace", "done"}
Interior == (1..Len(left)) \X (1..Len(right))

\* the three candidate costs of an interior cell, from the table as built
CostDiag(p) ==
    dp[<<p[1] - 1, p[2] - 1>>] + _pair_cost(left[p[1]], right[p[2]], embeddings, gap_penalty)
CostUp(p) == dp[<<p[1] - 1, p[2]>>] + gap_penalty
CostLeft(p) == dp[<<p[1], p[2] - 1>>] + gap_penalty

\* C17: at every interior cell the recorded move is diagonal when the diagonal
\* cost is at most the other two, up when the up cost is below the diagonal
\* cost and at most the left cost, and left only when the left cost is below
\* both; the cell's cost is the cost of the recorded move.
C17_TieBreak ==
    TableBuilt =>
        \A p \in Interior :
            /\ (CostDiag(p) <= CostUp(p) /\ CostDiag(p) <= CostLeft(p)) => back[p] = "D"
            /\ (CostUp(p) < CostDiag(p) /\ CostUp(p) <= CostLeft(p)) => back[p] = "U"
            /\ back[p] = "L" => (CostLeft(p) < CostDiag(p) /\ CostLeft(p) < CostUp(p))
            /\ back[p] \in {"D", "U", "L"}
            /\ dp[p] = CASE back[p] = "D" -> CostDiag(p)
                         [] back[p] = "U" -> CostUp(p)
                         [] back[p] = "L" -> CostLeft(p)

\* a table with a cell where diagonal and up tie, a cell where up and left tie
\* below the diagonal, and a cell where left alone is lowest
C17_Witness ==
    /\ TableBuilt
    /\ \E p \in Interior : CostDiag(p) = CostUp(p) /\ CostDiag(p) <= CostLeft(p)
    /\ \E p \in Interior : CostUp(p) = CostLeft(p) /\ CostUp(p) < CostDiag(p)
    /\ \E p \in Interior : back[p] = "L"

\* the non-gap values of one side of the rows, in row order
NonGapSide(rows, side) ==
    LET F[k \in 0..Len(rows)] ==
            IF k = 0 THEN <<>>
            ELSE IF rows[k][side] # NONE THEN Append(F[k - 1], rows[k][side]) ELSE F[k - 1]
    IN  F[Len(rows)]

\* C18: for gap-free inputs the non-gap left values of the returned rows, in
\* order, are the left input, the non-gap right values are the right input,
\* and the number of rows lies between max(m, n) and m + n.
C18_MonotoneTraversal ==
    (pc = "done" /\ GapFree(left) /\ GapFree(right)) =>
        /\ NonGapSide(aligned, 1) = left
        /\ NonGapSide(aligned, 2) = right
        /\ Len(aligned) >= Len(left) /\ Len(aligned) >= Len(right)
        /\ Len(aligned) <= Len(left) + Len(right)

C18_Witness ==
    /\ pc = "done" /\ GapFree(left) /\ GapFree(right)
    /\ Len(left) = 2 /\ Len(right) = 2
    /\ left[1] # left[2] /\ right[1] # right[2]
    /\ Len(aligned) = 3
    /\ aligned[1][2] = NONE

\* the reconstruction loop stands at a cell of the table whose recorded move
\* stays inside the table, with at most m + n - (i + j) rows appended so far
TraceSafe ==
    /\ pc = "trace" =>
         /\ i \in 0..Len(left) /\ j \in 0..Len(right)
         /\ Len(aligned) + i + j <= Len(left) + Len(right)
         /\ (i > 0 \/ j > 0) =>
              /\ back[<<i, j>>] \in {"D", "U", "L"}
              /\ back[<<i, j>>] \in {"D", "U"} => i > 0
              /\ back[<<i, j>>] \in {"D", "L"} => j > 0
              /\ ENABLED TraceStep
         /\ (i = 0 /\ j = 0) => ENABLED Finish
    /\ pc = "done" =>
         /\ i = 0 /\ j = 0
         /\ Len(aligned) <= Len(left) + Len(right)

\* C19: for all input lengths and any costs, the reconstruction loop starting
\* at (m, n) only visits cells with a recorded move, so it never finds a
\* backpointer missing; every step strictly decreases i + j; the loop stops at
\* (0, 0) after at most m + n steps.
C19_BacktraceSafe ==
    /\ []TraceSafe
    /\ [][(pc = "trace" /\ pc' = "trace") =>
            (i' + j' < i + j /\ Len(aligned') = Len(aligned) + 1)]_vars

C19_Witness ==
    /\ pc = "done"
    /\ Len(left) = 2 /\ Len(right) = 2
    /\ gap_penalty < 0
    /\ Len(aligned) = 4

\* the lookup holds a vector for the token
HasVector(t) == t \in DOMAIN embeddings /\ embeddings[t] # NoVec

\* C20: with the lookup of the call, _pair_cost is 0 for two gaps, the gap
\* penalty for exactly one gap, the gap penalty for two tokens of which one has
\* no vector in the lookup, and otherwise the distance of the two vectors; it
\* has a value in every case.
C20_PairCostCases ==
    TableBuilt =>
        \A l \in OptTokens, r \in OptTokens :
            LET cost == _pair_cost(l, r, embeddings, gap_penalty)
            IN  /\ cost \in Int
                /\ (l = NONE /\ r = NONE) => cost = 0
                /\ ((l = NONE) # (r = NONE)) => cost = gap_penalty
                /\ (l # NONE /\ r # NONE /\ ~(HasVector(l) /\ HasVector(r)))
                       => cost = gap_penalty
                /\ (l # NONE /\ r # NONE /\ HasVector(l) /\ HasVector(r))
                       => cost = _cosine_distance(embeddings[l], embeddings[r])

\* a call with a gap entry, a token without a vector and a token with one
C20_Witness ==
    /\ TableBuilt
    /\ gap_penalty = 2
    /\ \E k \in 1..Len(left) : left[k] = NONE
    /\ \E k \in 1..Len(left), h \in 1..Len(right) :
           /\ left[k] # NONE /\ right[h] # NONE
           /\ ~HasVector(left[k]) /\ HasVector(right[h])
           /\ _cosine_distance(embeddings[right[h]], embeddings[right[h]]) = 0

\* the total cost dp[m][n] of aligning l with r under the lookup of the call
TotalCost(l, r) == Table(l, r, embeddings, gap_penalty)[<<Len(l), Len(r)>>].cost
ButLast(s) == SubSeq(s, 1, Len(s) - 1)

\* C21 as claimed: the total cost is non-negative, and it is at least the total
\* cost of the same inputs with the last token of either side taken away.
C21_CostMonotone ==
    TableBuilt =>
        LET total == dp[<<Len(left), Len(right)>>]
        IN  /\ total >= 0
            /\ left # <<>> => total >= TotalCost(ButLast(left), right)
            /\ right # <<>> => total >= TotalCost(left, ButLast(right))

\* C21: one more token on either side raises the total cost by at most the gap
\* penalty; with a gap penalty of 0 or more the total cost is non-negative
\* and one more token lowers it by at most the gap penalty.
C21_CostWithinGap ==
    TableBuilt =>
        LET total == dp[<<Len(left), Len(right)>>]
            shorter == (IF left # <<>> THEN {TotalCost(ButLast(left), right)} ELSE {})
                         \cup (IF right # <<>> THEN {TotalCost(left, ButLast(right))} ELSE {})
        IN  /\ total = TotalCost(left, right)
            /\ \A c \in shorter : total <= c + gap_penalty
            /\ gap_penalty >= 0 =>
                 /\ total >= 0
                 /\ \A c \in shorter : total >= c - gap_penalty

\* a token added to the left meets its match and the total cost falls
C21_Witness ==
    /\ TableBuilt
    /\ gap_penalty > 0
    /\ GapFree(left) /\ GapFree(right)
    /\ Len(left) = 2 /\ Len(right) = 2
    /\ dp[<<2, 2>>] < TotalCost(ButLast(left), right)
    /\ dp[<<2, 2>>] = TotalCost(left, ButLast(right)) + gap_penalty

(***************************************************************************)
(* Further claims about stitch_all_chunks (checked under Spec)             *)
(***************************************************************************)
\* the positions of the head window holding a both-present row
HeadAnchors ==
    {h \in 1..Len(chunk_list) : h <= 2 * overlap_size /\ BothPresent(chunk_list[h])}
Lowest(S) == CHOOSE k \in S : \A h \in S : k <= h

\* C22: the tail anchor is the lowest position of the tail window whose row
\* equals the head anchor row; when no row equals it, the lowest position
\* whose row merges with the anchor row to exactly the anchor row; when there
\* is neither, the step is flagged anchor-only-in-head.
C22_TailAnchorSelection ==
    (Folded /\ HeadAnchors # {}) =>
        LET anchor == chunk_list[Lowest(HeadAnchors)]
            tw == LastN(acc_before, 2 * overlap_size)
            equal == {t \in 1..Len(tw) : tw[t] = anchor}
            merging == {t \in 1..Len(tw) :
                           Compatible(tw[t], anchor) /\ UnionFill(tw[t], anchor) = anchor}
        IN  /\ core.anchor_in_head
            /\ equal # {} => (core.anchor_found /\ core.anchor_idx_tail = Lowest(equal))
            /\ (equal = {} /\ merging # {})
                   => (core.anchor_found /\ core.anchor_idx_tail = Lowest(merging))
            /\ (equal = {} /\ merging = {}) => ~core.anchor_found

\* an exact copy of the anchor row stands after a one-sided row that merges to it
C22_Witness ==
    /\ Folded /\ HeadAnchors # {}
    /\ overlap_size = 1
    /\ Len(acc_before) = 2
    /\ acc_before[2] = chunk_list[Lowest(HeadAnchors)]
    /\ OneSided(acc_before[1])
    /\ Compatible(acc_before[1], acc_before[2])
    /\ core.anchor_idx_tail = 2

\* C24: in every anchor-found step the head-prefix loop leaves the tail window
\* as it was and records no rewrite, so the rewritten prefix is empty and the
\* trim count is the number of tail-window rows from the tail anchor on.
C24_NoTailRewrite ==
    (Folded /\ core.anchor_found) =>
        /\ core.updated_tail_window = core.tail_window
        /\ core.earliest_rewrite_idx = 0
        /\ core.rewritten_prefix = <<>>
        /\ core.trim_from_tail = Len(core.tail_window) - (core.anchor_idx_tail - 1)
        /\ core.trim_from_tail >= 1
        /\ Len(accumulator) = Len(acc_before) - core.trim_from_tail + Len(core.stitched_rows)

\* two head-prefix rows are merged into tail-window rows before the tail anchor
C24_Witness ==
    /\ Folded /\ core.anchor_found
    /\ core.anchor_idx_tail = 3
    /\ core.consumed_head = <<TRUE, TRUE>>
    /\ core.tail_window[1] # chunk_list[1]
    /\ core.tail_window[1][1] # core.tail_window[2][1]
    /\ core.trim_from_tail = 1

(***************************************************************************)
(* Claims about calls with three chunks and about the caller's lists       *)
(* (checked under SpecThree)                                               *)
(***************************************************************************)
\* the rows the last step removed from the end of the accumulator
StepRemoved == Len(acc_before) + Len(core.stitched_rows) - Len(accumulator)
\* the number of rows of acc standing before its last 2 * overlap_size rows
BeforeWindow(acc) ==
    IF Len(acc) > 2 * overlap_size THEN Len(acc) - 2 * overlap_size ELSE 0

\* C23 as claimed: a fold step removes at most min(2 * overlap_size,
\* len(accumulator)) rows, and the rows before the last 2 * overlap_size rows
\* of the accumulator of any step, the first accumulator included, are a
\* prefix of every later accumulator.
C23_PrefixForever ==
    Folded =>
        /\ StepRemoved <= 2 * overlap_size /\ StepRemoved <= Len(acc_before)
        /\ FirstN(accumulator, BeforeWindow(acc_before))
              = FirstN(acc_before, BeforeWindow(acc_before))
        /\ FirstN(accumulator, BeforeWindow(given[1]))
              = FirstN(given[1], BeforeWindow(given[1]))

\* C23: a fold step removes at most min(2 * overlap_size, len(accumulator))
\* rows from the end of the accumulator it starts from, and the rows of that
\* accumulator before its last 2 * overlap_size rows are a prefix of the
\* accumulator after the step.
C23_BoundedTrim ==
    Folded =>
        /\ StepRemoved >= 0
        /\ StepRemoved <= 2 * overlap_size /\ StepRemoved <= Len(acc_before)
        /\ Len(accumulator) >= BeforeWindow(acc_before)
        /\ FirstN(accumulator, BeforeWindow(acc_before))
              = FirstN(acc_before, BeforeWindow(acc_before))

\* the second step removes a row that stood before the window of the first
C23_Witness ==
    /\ Folded /\ chunk_idx = 2
    /\ overlap_size = 1
    /\ Len(given[1]) = 3
    /\ StepRemoved = 2
    /\ accumulator[1] # given[1][1]
    /\ Len(acc_before) = 2 /\ acc_before[1] = given[1][1]

\* the caller's lists hold what was passed: in stitch_all_chunks one list per
\* chunk taken, the last equal to the chunk just folded; in stitch_two_chunks
\* prev_tail and new_chunk, and no row of the tail window was written
GivenAsPassed ==
    /\ spc = "loop" => (Len(given) = chunk_idx + 1 /\ given[Len(given)] = chunk_list)
    /\ spc = "two_done" =>
         /\ given = <<acc_before, chunk_list>>
         /\ core.updated_tail_window = core.tail_window

\* C25: stitch_two_chunks leaves prev_tail and new_chunk as passed, and no
\* step of stitch_all_chunks changes a chunk list it was given, the first
\* chunk included.
C25_NoAliasing ==
    /\ []GivenAsPassed
    /\ [][spc' # "done" =>
            \A k \in 1..Len(given) : k <= Len(given') /\ given'[k] = given[k]]_vars

\* two steps appended rows after the rows of the first chunk and trimmed nothing
C25_Witness ==
    /\ spc = "loop" /\ chunk_idx = 2
    /\ overlap_size >= 1
    /\ Len(given[1]) >= 2
    /\ Len(acc_before) > Len(given[1])
    /\ Len(accumulator) > Len(acc_before)
    /\ FirstN(accumulator, Len(given[1])) = given[1]

====
